---------------------------- MODULE Spec2Model ----------------------------
(***************************************************************************)
(* Social-media-posts dashboard (React front end).                         *)
(*                                                                         *)
(*   SpecInProcess  the client-filtering App (src/unnamed/part_000): the   *)
(*                  whole collection is fetched once and filter, sort and  *)
(*                  slice are recomputed on every render.                  *)
(*   Spec           the server-filtering App (src/frontend/src/App.jsx):   *)
(*                  criteria are forwarded as query parameters and the     *)
(*                  response is shown verbatim.                            *)
(*   SpecForm       PostForm (src/frontend/src/components/PostForm.jsx):   *)
(*                  the create / edit form and its handleSubmit.           *)
(*                                                                         *)
(* JavaScript values that may be undefined/null are encoded as sequences   *)
(* of length <= 1: << >> is the missing value, <<v>> the present value v.  *)
(* Text is a sequence of one-character strings, so that trim, toLowerCase, *)
(* includes and the e-mail pattern are computed, not assumed.              *)
(***************************************************************************)
EXTENDS Integers, Sequences, FiniteSets, TLC

VARIABLES
    \* ---- App state (useState hooks) ----
    posts, loading, totalPages, total,
    search, category, dateFrom, dateTo, firstName, lastName, sortBy, page,
    \* ---- render constants of the client-filtering App ----
    filtered, sorted, paginated,
    \* ---- environment: the storage collaborator, the browser's time zone, and
    \*      the direction in which the doubles of this run round a mean that
    \*      lies midway between two tenths ----
    db, tz, tieUp,
    \* ---- GET /posts requests in flight, and how many were issued so far ----
    requests, issued,
    \* ---- PostForm: whether it is shown, its props, its field state and error,
    \*      the request body built by the handleSubmit call that just ran, and
    \*      the POST / PUT requests awaiting their response ----
    showForm, isEdit, post, form, error, updateData, sent,
    \* ---- Header: the statistics it shows, its GET /posts/stats requests in
    \*      flight, whether it is mounted, the refreshStats listeners
    \*      registered on window and the refreshStats events dispatched so far ----
    stats, statsRequests, mounted, listeners, published,
    \* ---- App: the requests whose completion a refreshAll call awaits, the
    \*      toast, and the DELETE requests awaiting their response ----
    refreshing, toast, deletes

appVars  == <<posts, loading, totalPages, total, search, category, dateFrom,
              dateTo, firstName, lastName, sortBy, page>>
viewVars == <<filtered, sorted, paginated, stats>>
envVars  == <<db, tz, tieUp>>
netVars  == <<requests, issued>>
formVars == <<showForm, isEdit, post, form, error, updateData, sent>>
headerVars == <<statsRequests, mounted, listeners, published, refreshing, toast, deletes>>
vars     == <<appVars, viewVars, envVars, netVars, formVars, headerVars>>

---------------------------------------------------------------------------
(* Bounds of the model *)

\* Most posts the storage collaborator holds.
MaxPosts == 4
\* Highest page number the Next button is followed to.
MaxPage == 2
\* Most GET /posts requests issued in one behaviour.
MaxRequests == 4
\* Most POST / PUT requests of the form awaiting their response at once.
MaxInFlight == 2
\* Time slots per calendar day (a slot is the unit of a time value).
DayLen == 4

---------------------------------------------------------------------------
(* JavaScript values *)

Nothing == << >>
Just(v) == <<v>>
NaN == << >>

\* x || "" for a text value (undefined, null and "" are falsy).
OrEmpty(m) == IF m = Nothing THEN << >> ELSE m[1]
\* x || "" for an enumerated string (category).
OrEmptyName(m) == IF m = Nothing THEN "" ELSE m[1]
\* x || 0
OrZero(m) == IF m = Nothing THEN 0 ELSE m[1]

\* b - a on numbers that may be undefined: ToNumber(undefined) is NaN.
Minus(b, a) == IF b = Nothing \/ a = Nothing THEN NaN ELSE Just(b[1] - a[1])

LowerChar(c) ==
    CASE c = "A" -> "a"
      [] c = "B" -> "b"
      [] c = "L" -> "l"
      [] c = "O" -> "o"
      [] OTHER   -> c

\* String.prototype.toLowerCase
ToLowerCase(s) == [i \in 1..Len(s) |-> LowerChar(s[i])]

\* String.prototype.includes
Includes(s, t) ==
    \E i \in 0..(Len(s) - Len(t)) : SubSeq(s, i + 1, i + Len(t)) = t

IsSpace(c) == c = " "

\* String.prototype.trim
RECURSIVE TrimStart(_)
TrimStart(s) ==
    IF s # << >> /\ IsSpace(Head(s)) THEN TrimStart(Tail(s)) ELSE s

RECURSIVE TrimEnd(_)
TrimEnd(s) ==
    IF s # << >> /\ IsSpace(s[Len(s)]) THEN TrimEnd(SubSeq(s, 1, Len(s) - 1))
    ELSE s

Trim(s) == TrimEnd(TrimStart(s))

Range(s) == {s[i] : i \in 1..Len(s)}

\* Math.ceil(n / d) for n >= 0, d > 0
Ceil(n, d) == (n + d - 1) \div d

\* Array.prototype.slice(start, end) with 0 <= start <= end
Slice(s, start, end) ==
    LET lo == IF start > Len(s) THEN Len(s) ELSE start
        hi == IF end > Len(s) THEN Len(s) ELSE end
    IN  SubSeq(s, lo + 1, hi)

---------------------------------------------------------------------------
(* Dates.  A time value counts slots since the epoch (UTC).  A post_date  *)
(* string is <<day, slot>> when it is a well-formed timestamp, anything   *)
(* else does not parse.  A date-only string "YYYY-MM-DD" (the value of an *)
(* <input type="date">) is <<day>>, and "" is << >>.                      *)

\* A post_date that is missing or malformed, such as "not-a-date".
NotADate == << >>

\* new Date(post.post_date).getTime()
DateParse(s) ==
    IF Len(s) = 2 THEN Just(s[1] * DayLen + s[2]) ELSE NaN

\* new Date("YYYY-MM-DD").getTime(): date-only forms are UTC midnight
DateOnlyParse(d) == d[1] * DayLen

\* date.setHours(0, 0, 0, 0): the start of the local calendar day
StartOfDay(t, zone) == ((t + zone) \div DayLen) * DayLen - zone

\* date.setHours(23, 59, 59, 999): the last instant of the local calendar day
EndOfDay(t, zone) == StartOfDay(t, zone) + DayLen - 1

---------------------------------------------------------------------------
(* Posts the storage collaborator may hold.  engagement_rate is a percentage,
   counted in tenths: 12 is 1.2 %. *)

Author(first, last) == Just([first_name |-> first, last_name |-> last])

Post1 == [id |-> 1, text |-> Just(<<"A", "b">>), category |-> Just("Product"),
          author |-> Author(Just(<<"A", "l">>), Just(<<"B", "o">>)),
          post_date |-> <<2, 1>>,
          likes |-> Just(5), comments |-> Just(1), total_engagements |-> Just(6),
          engagement_rate |-> Just(12)]

Post2 == [id |-> 2, text |-> Just(<<"b">>), category |-> Just("Marketing"),
          author |-> Author(Just(<<"B", "o">>), Just(<<"A", "l">>)),
          post_date |-> <<3, 0>>,
          likes |-> Just(5), comments |-> Just(2), total_engagements |-> Just(7),
          engagement_rate |-> Just(25)]

\* A malformed record: no text, no category, no author, no likes counter, and a
\* post_date that does not parse.
Post3 == [id |-> 3, text |-> Nothing, category |-> Nothing,
          author |-> Nothing,
          post_date |-> NotADate,
          likes |-> Nothing, comments |-> Just(2), total_engagements |-> Just(2),
          engagement_rate |-> Nothing]

Post4 == [id |-> 4, text |-> Just(<<"a">>), category |-> Just("Product"),
          author |-> Author(Just(<<"A", "l">>), Nothing),
          post_date |-> <<3, 2>>,
          likes |-> Just(1), comments |-> Just(1), total_engagements |-> Just(2),
          engagement_rate |-> Just(30)]

Universe == {Post1, Post2, Post3, Post4}

\* The posts of S, oldest first (ascending id) or newest first (descending id).
InIdOrder(S, ascending) ==
    CHOOSE s \in [1..Cardinality(S) -> S] :
        \A i, j \in 1..Cardinality(S) :
            i < j => IF ascending THEN s[i].id < s[j].id ELSE s[i].id > s[j].id

\* Collections the storage collaborator may supply: any posts, no id twice,
\* oldest first or newest first.
Collections ==
    {InIdOrder(S, asc) : S \in {T \in SUBSET Universe : Cardinality(T) <= MaxPosts},
                         asc \in BOOLEAN}

Ids(s) == [i \in 1..Len(s) |-> s[i].id]

(* What the user can enter in the Filters bar *)
SearchTerms  == {<< >>, <<"B">>}
categories   == {"All Categories", "Product"}
DateInputs   == {<< >>, <<3>>}
FirstNames   == {<< >>, <<"a", "l">>}
LastNames    == {<< >>, <<"B">>}
sortOptions  == {"Most Recent", "Highest Engagement", "Most Liked", "Most Commented"}
TimeZones    == {-1, 1}

POSTS_PER_PAGE == 3

---------------------------------------------------------------------------
(* Filter predicate of the client-filtering App, per post *)

\* post.author?.first_name || ""
AuthorFirstName(p) == IF p.author = Nothing THEN << >> ELSE OrEmpty(p.author[1].first_name)
\* post.author?.last_name || ""
AuthorLastName(p) == IF p.author = Nothing THEN << >> ELSE OrEmpty(p.author[1].last_name)

matchesSearch(p, srch) ==
    srch = << >> \/ Includes(ToLowerCase(OrEmpty(p.text)), ToLowerCase(srch))

matchesCategory(p, cat) ==
    cat = "All Categories" \/ OrEmptyName(p.category) = cat

matchesFirstName(p, fn) ==
    fn = << >> \/ Includes(ToLowerCase(AuthorFirstName(p)), ToLowerCase(fn))

matchesLastName(p, ln) ==
    ln = << >> \/ Includes(ToLowerCase(AuthorLastName(p)), ToLowerCase(ln))

matchesDateFrom(p, from, to, zone) ==
    IF from # << >> \/ to # << >>
    THEN IF DateParse(p.post_date) # NaN
         THEN IF from # << >>
              THEN StartOfDay(DateParse(p.post_date)[1], zone)
                     >= StartOfDay(DateOnlyParse(from), zone)
              ELSE TRUE
         ELSE FALSE
    ELSE TRUE

matchesDateTo(p, from, to, zone) ==
    IF from # << >> \/ to # << >>
    THEN IF DateParse(p.post_date) # NaN
         THEN IF to # << >>
              THEN StartOfDay(DateParse(p.post_date)[1], zone)
                     <= EndOfDay(DateOnlyParse(to), zone)
              ELSE TRUE
         ELSE FALSE
    ELSE TRUE

\* The criteria of one render, as a record.
Criteria(srch, cat, from, to, fn, ln) ==
    [search |-> srch, category |-> cat, dateFrom |-> from, dateTo |-> to,
     firstName |-> fn, lastName |-> ln]

\* A filter callback that forgets the date-to bound.
DropsDateTo(p, c, zone) ==
    /\ matchesSearch(p, c.search)
    /\ matchesCategory(p, c.category)
    /\ matchesFirstName(p, c.firstName)
    /\ matchesLastName(p, c.lastName)
    /\ matchesDateFrom(p, c.dateFrom, c.dateTo, zone)

\* A filter callback that lets a post_date that does not parse pass the date range.
KeepsUnparsedDates(p, c, zone) ==
    /\ matchesSearch(p, c.search)
    /\ matchesCategory(p, c.category)
    /\ matchesFirstName(p, c.firstName)
    /\ matchesLastName(p, c.lastName)
    /\ \/ DateParse(p.post_date) = NaN
       \/ /\ matchesDateFrom(p, c.dateFrom, c.dateTo, zone)
          /\ matchesDateTo(p, c.dateFrom, c.dateTo, zone)

\* The callback given to posts.filter
Matches(p, c, zone) ==
    /\ matchesSearch(p, c.search)
    /\ matchesCategory(p, c.category)
    /\ matchesFirstName(p, c.firstName)
    /\ matchesLastName(p, c.lastName)
    /\ matchesDateFrom(p, c.dateFrom, c.dateTo, zone)
    /\ matchesDateTo(p, c.dateFrom, c.dateTo, zone)

\* Array.prototype.filter
RECURSIVE Filter(_, _, _)
Filter(s, c, zone) ==
    IF s = << >> THEN << >>
    ELSE IF Matches(Head(s), c, zone)
         THEN <<Head(s)>> \o Filter(Tail(s), c, zone)
         ELSE Filter(Tail(s), c, zone)

\* Every criteria record the Filters bar can produce.
CriteriaSet ==
    [search : SearchTerms, category : categories, dateFrom : DateInputs,
     dateTo : DateInputs, firstName : FirstNames, lastName : LastNames]

\* Filter, tabulated once over the collections, criteria and time zones.
filterTable ==
    [s \in Collections, c \in CriteriaSet, zone \in TimeZones |-> Filter(s, c, zone)]

---------------------------------------------------------------------------
(* Sort comparator and Array.prototype.sort *)

\* The function given to filtered.sort
comparefn(a, b, key) ==
    CASE key = "Highest Engagement" -> Minus(b.total_engagements, a.total_engagements)
      [] key = "Most Liked"         -> Minus(b.likes, a.likes)
      [] key = "Most Commented"     -> Minus(b.comments, a.comments)
      [] OTHER -> Minus(DateParse(b.post_date), DateParse(a.post_date))

\* SortCompare of ECMA-262: a NaN result of comparefn counts as +0.
SortCompare(a, b, key) ==
    LET v == comparefn(a, b, key) IN IF v = NaN THEN 0 ELSE v[1]

\* ECMA-262: comparefn is a consistent comparator for the set S.
ConsistentComparator(S, key) ==
    \A a, b, c \in S :
        /\ SortCompare(a, a, key) = 0
        /\ (SortCompare(a, b, key) < 0) = (SortCompare(b, a, key) > 0)
        /\ (SortCompare(a, b, key) = 0 /\ SortCompare(b, c, key) = 0)
              => SortCompare(a, c, key) = 0
        /\ (SortCompare(a, b, key) < 0 /\ SortCompare(b, c, key) < 0)
              => SortCompare(a, c, key) < 0
        /\ (SortCompare(a, b, key) > 0 /\ SortCompare(b, c, key) > 0)
              => SortCompare(a, c, key) > 0

\* x inserted behind every element of the sorted t that does not sort after it
Insert(t, x, key) ==
    LET k == Cardinality({i \in 1..Len(t) : SortCompare(t[i], x, key) <= 0})
    IN  SubSeq(t, 1, k) \o <<x>> \o SubSeq(t, k + 1, Len(t))

\* The stable sort ECMA-262 requires of a consistent comparator.
RECURSIVE StableSort(_, _)
StableSort(s, key) ==
    IF s = << >> THEN << >>
    ELSE Insert(StableSort(SubSeq(s, 1, Len(s) - 1), key), s[Len(s)], key)

Orders(s) ==
    {t \in [1..Len(s) -> Range(s)] : Range(t) = Range(s)}

\* Every order Array.prototype.sort may leave: the stable sorted order when
\* comparefn is a consistent comparator for the elements; otherwise the order is
\* implementation-defined (ECMA-262, Array.prototype.sort), any permutation.
SortOutcomes(s, key) ==
    IF ConsistentComparator(Range(s), key) THEN {StableSort(s, key)}
    ELSE Orders(s)

\* SortOutcomes, tabulated once over the collections and sort keys.
sortTable == [s \in Collections, key \in sortOptions |-> SortOutcomes(s, key)]

---------------------------------------------------------------------------
(* Pagination *)

\* Math.ceil(sorted.length / POSTS_PER_PAGE)
TotalPages(s) == Ceil(Len(s), POSTS_PER_PAGE)

\* A slice that starts one page too far.
PaginateFromPage(s, p) ==
    Slice(s, p * POSTS_PER_PAGE, (p + 1) * POSTS_PER_PAGE)

\* sorted.slice((page - 1) * POSTS_PER_PAGE, page * POSTS_PER_PAGE)
Paginate(s, p) ==
    Slice(s, (p - 1) * POSTS_PER_PAGE, p * POSTS_PER_PAGE)

---------------------------------------------------------------------------
(* PostForm is not mounted in the App specifications. *)

EmptyForm == [firstName |-> << >>, lastName |-> << >>, email |-> << >>,
              company |-> << >>, jobTitle |-> << >>, text |-> << >>,
              category |-> "Product"]

\* Header's stats state before any response (src/unnamed/part_004, 7-12);
\* avg_engagement_rate in tenths.
NoStats == [total_posts |-> 0, total_likes |-> 0, total_comments |-> 0,
            avg_engagement_rate |-> 0]

\* No Header with a listener, no toast, no mutation under way.
NoHeader ==
    /\ statsRequests = 0
    /\ mounted = FALSE
    /\ listeners = 0
    /\ published = 0
    /\ refreshing = {}
    /\ toast = Nothing
    /\ deletes = << >>

NoForm ==
    /\ showForm = FALSE
    /\ isEdit = FALSE
    /\ post = Nothing
    /\ form = EmptyForm
    /\ error = ""
    /\ updateData = Nothing
    /\ sent = << >>

---------------------------------------------------------------------------
(* The statistics of the Header that is given the posts
   (src/frontend/src/components/header.jsx, 4-13) *)

\* posts.reduce((sum, p) => sum + (p.<field> || 0), 0)
RECURSIVE SumOf(_, _)
SumOf(s, field) ==
    IF s = << >> THEN 0 ELSE OrZero(Head(s)[field]) + SumOf(Tail(s), field)

\* (sum / n).toFixed(1), sum and result in tenths: the integer nearest to
\* sum / n.  When sum / n lies midway between two tenths, the double that
\* represents it decides the direction (up).
ToFixed1(sum, n, up) ==
    LET q == sum \div n
        r == sum % n
    IN  IF 2 * r < n THEN q
        ELSE IF 2 * r > n THEN q + 1
        ELSE IF up THEN q + 1 ELSE q

\* A statistics computation that counts the likes of the first post only.
AggregateFirstLikes(s, up) ==
    [totalPosts |-> Len(s),
     totalLikes |-> IF s = << >> THEN 0 ELSE OrZero(Head(s).likes),
     totalComments |-> SumOf(s, "comments"),
     avgEngagement |-> IF Len(s) = 0 THEN 0
                       ELSE ToFixed1(SumOf(s, "engagement_rate"), Len(s), up)]

\* totalPosts, totalLikes, totalComments, avgEngagement (in tenths; 0 for
\* the empty collection).
Aggregate(s, up) ==
    [totalPosts |-> Len(s),
     totalLikes |-> SumOf(s, "likes"),
     totalComments |-> SumOf(s, "comments"),
     avgEngagement |-> IF Len(s) = 0 THEN 0
                       ELSE ToFixed1(SumOf(s, "engagement_rate"), Len(s), up)]

\* A Header that is handed the page shown.
HeaderPostsShown(all, shown) == shown

\* <Header posts={posts} .../>: the Header is handed the fetched collection.
HeaderPosts(all, shown) == all

---------------------------------------------------------------------------
(* The client-filtering App (src/unnamed/part_000) *)

\* The body of App after the hooks: filtered, sorted, totalPages, paginated
\* are recomputed from the new state on every render.
Render ==
    /\ filtered' = filterTable[posts', Criteria(search', category', dateFrom',
                                                 dateTo', firstName', lastName'), tz']
    /\ sorted' \in sortTable[filtered', sortBy']
    /\ totalPages' = TotalPages(sorted')
    /\ paginated' = Paginate(sorted', page')
    /\ stats' = Aggregate(HeaderPosts(posts', paginated'), tieUp')

\* State after the first render and the mount effect, which calls fetchPosts.
InitInProcess ==
    /\ posts = << >>
    /\ loading = TRUE
    /\ search = << >>
    /\ category = "All Categories"
    /\ dateFrom = << >>
    /\ dateTo = << >>
    /\ firstName = << >>
    /\ lastName = << >>
    /\ sortBy = "Most Recent"
    /\ page = 1
    /\ filtered = << >>
    /\ sorted = << >>
    /\ totalPages = 0
    /\ paginated = << >>
    /\ total = 0
    /\ db = << >>
    /\ tz \in TimeZones
    /\ tieUp \in BOOLEAN
    /\ requests = {[id |-> 1, params |-> Nothing]}
    /\ issued = 1
    /\ NoForm
    /\ stats = Aggregate(<< >>, tieUp)
    /\ NoHeader

\* fetchPosts, from the response on: setPosts(res.data); setLoading(false).
\* res.data is whatever collection the storage collaborator holds.
LocalFetchPostsOk(r, data) ==
    /\ r \in requests
    /\ requests' = requests \ {r}
    /\ posts' = data
    /\ loading' = FALSE
    /\ UNCHANGED <<total, search, category, dateFrom, dateTo, firstName,
                   lastName, sortBy, page, envVars, headerVars, issued, formVars>>
    /\ Render

\* fetchPosts when the request fails: console.error; setLoading(false)
LocalFetchPostsFail(r) ==
    /\ r \in requests
    /\ requests' = requests \ {r}
    /\ loading' = FALSE
    /\ UNCHANGED <<posts, total, search, category, dateFrom, dateTo, firstName,
                   lastName, sortBy, page, envVars, headerVars, issued, formVars>>
    /\ Render

\* A filter field changes; the effect on [search, ..., lastName] then runs
\* setPage(1).
LocalSetSearch(v) ==
    /\ v # search
    /\ search' = v
    /\ page' = 1
    /\ UNCHANGED <<posts, loading, total, category, dateFrom, dateTo, firstName,
                   lastName, sortBy, envVars, headerVars, netVars, formVars>>
    /\ Render

LocalSetCategory(v) ==
    /\ v # category
    /\ category' = v
    /\ page' = 1
    /\ UNCHANGED <<posts, loading, total, search, dateFrom, dateTo, firstName,
                   lastName, sortBy, envVars, headerVars, netVars, formVars>>
    /\ Render

LocalSetDateFrom(v) ==
    /\ v # dateFrom
    /\ dateFrom' = v
    /\ page' = 1
    /\ UNCHANGED <<posts, loading, total, search, category, dateTo, firstName,
                   lastName, sortBy, envVars, headerVars, netVars, formVars>>
    /\ Render

LocalSetDateTo(v) ==
    /\ v # dateTo
    /\ dateTo' = v
    /\ page' = 1
    /\ UNCHANGED <<posts, loading, total, search, category, dateFrom, firstName,
                   lastName, sortBy, envVars, headerVars, netVars, formVars>>
    /\ Render

LocalSetFirstName(v) ==
    /\ v # firstName
    /\ firstName' = v
    /\ page' = 1
    /\ UNCHANGED <<posts, loading, total, search, category, dateFrom, dateTo,
                   lastName, sortBy, envVars, headerVars, netVars, formVars>>
    /\ Render

LocalSetLastName(v) ==
    /\ v # lastName
    /\ lastName' = v
    /\ page' = 1
    /\ UNCHANGED <<posts, loading, total, search, category, dateFrom, dateTo,
                   firstName, sortBy, envVars, headerVars, netVars, formVars>>
    /\ Render

\* sortBy is not a dependency of the page-reset effect: the page stays.
LocalSetSortBy(v) ==
    /\ v # sortBy
    /\ sortBy' = v
    /\ UNCHANGED <<posts, loading, total, search, category, dateFrom, dateTo,
                   firstName, lastName, page, envVars, headerVars, netVars, formVars>>
    /\ Render

\* onClearAll
LocalClearAll ==
    /\ search' = << >>
    /\ category' = "All Categories"
    /\ dateFrom' = << >>
    /\ dateTo' = << >>
    /\ firstName' = << >>
    /\ lastName' = << >>
    /\ sortBy' = "Most Recent"
    /\ page' = 1
    /\ UNCHANGED <<posts, loading, total, envVars, headerVars, netVars, formVars>>
    /\ Render

\* Pagination: the Previous button, disabled on page 1
LocalPrevious ==
    /\ page # 1
    /\ page' = page - 1
    /\ UNCHANGED <<posts, loading, total, search, category, dateFrom, dateTo,
                   firstName, lastName, sortBy, envVars, headerVars, netVars, formVars>>
    /\ Render

\* Pagination: the Next button, disabled when page = totalPages
LocalNextPage ==
    /\ page # totalPages
    /\ page < MaxPage
    /\ page' = page + 1
    /\ UNCHANGED <<posts, loading, total, search, category, dateFrom, dateTo,
                   firstName, lastName, sortBy, envVars, headerVars, netVars, formVars>>
    /\ Render

NextInProcess ==
    \/ \E r \in requests, data \in Collections : LocalFetchPostsOk(r, data)
    \/ \E r \in requests : LocalFetchPostsFail(r)
    \/ \E v \in SearchTerms : LocalSetSearch(v)
    \/ \E v \in categories : LocalSetCategory(v)
    \/ \E v \in DateInputs : LocalSetDateFrom(v)
    \/ \E v \in DateInputs : LocalSetDateTo(v)
    \/ \E v \in FirstNames : LocalSetFirstName(v)
    \/ \E v \in LastNames : LocalSetLastName(v)
    \/ \E v \in sortOptions : LocalSetSortBy(v)
    \/ LocalClearAll
    \/ LocalPrevious
    \/ LocalNextPage

SpecInProcess == InitInProcess /\ [][NextInProcess]_vars

---------------------------------------------------------------------------
(* The storage collaborator's GET /posts, whose code is not part of the    *)
(* front end: filter, sort with ascending id as the final tie-break, and   *)
(* paginate with at least one page, as the design states them.             *)

\* The query parameters fetchPosts builds from the App state.
QueryParams(pg, key, srch, cat, from, to, fn, ln) ==
    [page |-> pg, per_page |-> POSTS_PER_PAGE, sort_by |-> key,
     search |-> srch,
     category |-> IF cat # "" /\ cat # "All Categories" THEN Just(cat) ELSE Nothing,
     date_from |-> from, date_to |-> to, first_name |-> fn, last_name |-> ln]

\* Date range at day granularity, both bounds inclusive; a post whose date
\* does not parse fails as soon as a bound is given.
ServerMatchesDate(p, from, to) ==
    IF from = << >> /\ to = << >> THEN TRUE
    ELSE /\ Len(p.post_date) = 2
         /\ from # << >> => p.post_date[1] >= from[1]
         /\ to # << >> => p.post_date[1] <= to[1]

ServerMatches(p, q) ==
    /\ matchesSearch(p, q.search)
    /\ q.category # Nothing => OrEmptyName(p.category) = q.category[1]
    /\ matchesFirstName(p, q.first_name)
    /\ matchesLastName(p, q.last_name)
    /\ ServerMatchesDate(p, q.date_from, q.date_to)

\* The value a post is ranked by; a missing value ranks as 0.
ServerMetric(p, key) ==
    CASE key = "Highest Engagement" -> OrZero(p.total_engagements)
      [] key = "Most Liked"         -> OrZero(p.likes)
      [] key = "Most Commented"     -> OrZero(p.comments)
      [] OTHER                      -> OrZero(DateParse(p.post_date))

\* a is ranked before b: higher metric first, then lower id.
ServerBefore(a, b, key) ==
    \/ ServerMetric(a, key) > ServerMetric(b, key)
    \/ ServerMetric(a, key) = ServerMetric(b, key) /\ a.id < b.id

RECURSIVE ServerSort(_, _)
ServerSort(S, key) ==
    IF S = {} THEN << >>
    ELSE LET first == CHOOSE a \in S : \A b \in S \ {a} : ServerBefore(a, b, key)
         IN  <<first>> \o ServerSort(S \ {first}, key)

ServerQuery(collection, q) ==
    LET matching == {p \in Range(collection) : ServerMatches(p, q)}
        ordered  == ServerSort(matching, q.sort_by)
        pages    == Ceil(Len(ordered), q.per_page)
    IN  [posts       |-> Slice(ordered, (q.page - 1) * q.per_page, q.page * q.per_page),
         total_pages |-> IF pages < 1 THEN 1 ELSE pages,
         total       |-> Len(ordered)]

---------------------------------------------------------------------------
(* Claims about the client-filtering App, checked under SpecInProcess *)

CurrentCriteria == Criteria(search, category, dateFrom, dateTo, firstName, lastName)

\* s is t with some elements left out, the others in t's order.
RECURSIVE IsSubsequence(_, _)
IsSubsequence(s, t) ==
    IF s = << >> THEN TRUE
    ELSE IF t = << >> THEN FALSE
    ELSE IF Head(s) = Head(t) THEN IsSubsequence(Tail(s), Tail(t))
    ELSE IsSubsequence(s, Tail(t))

AllSixHold(p) ==
    /\ matchesSearch(p, search)
    /\ matchesCategory(p, category)
    /\ matchesFirstName(p, firstName)
    /\ matchesLastName(p, lastName)
    /\ matchesDateFrom(p, dateFrom, dateTo, tz)
    /\ matchesDateTo(p, dateFrom, dateTo, tz)

\* C1: the filter result is a sub-collection of the posts, in their order,
\* and a post is in it exactly when all six sub-predicates hold of it: every
\* excluded post fails one, and none that passes all six is dropped.
C1_FilterIsConjunction ==
    /\ IsSubsequence(filtered, posts)
    /\ \A i \in 1..Len(posts) :
          (posts[i] \in Range(filtered)) <=> AllSixHold(posts[i])

\* C1 witness: with a search term and a date bound set, the filter kept some
\* posts of the loaded collection and excluded others.
C1_Witness ==
    /\ search # << >>
    /\ dateTo # << >>
    /\ Len(posts) >= 3
    /\ filtered # << >>
    /\ Len(filtered) < Len(posts)

\* The metric a sort key selects (missing, or a date that does not parse: NaN).
Metric(p, key) ==
    CASE key = "Highest Engagement" -> p.total_engagements
      [] key = "Most Liked"         -> p.likes
      [] key = "Most Commented"     -> p.comments
      [] OTHER                      -> DateParse(p.post_date)

\* C2: the sorted sequence is non-increasing in the selected metric, also
\* when some posts have a missing metric or a post_date that does not parse:
\* of any two posts that carry the metric, the one placed first has the
\* greater or equal value.
C2_SortedNonIncreasing ==
    \A i, j \in 1..Len(sorted) :
        (i < j /\ Metric(sorted[i], sortBy) # NaN /\ Metric(sorted[j], sortBy) # NaN)
            => Metric(sorted[i], sortBy)[1] >= Metric(sorted[j], sortBy)[1]

\* C3: two posts equal on the selected metric appear in ascending id order
\* (stated where every post carries the metric, so that the order is defined).
C3_TiesInIdOrder ==
    (\A i \in 1..Len(sorted) : Metric(sorted[i], sortBy) # NaN)
        => \A i, j \in 1..Len(sorted) :
              (i < j /\ Metric(sorted[i], sortBy) = Metric(sorted[j], sortBy))
                  => sorted[i].id < sorted[j].id

\* C4: once the fetch has settled, the page count given to the pagination
\* control is max(1, ceil(totalCount / pageSize)): 1, not 0, for an empty result.
C4_TotalPagesAtLeastOne ==
    ~loading =>
        totalPages = IF Ceil(Len(sorted), POSTS_PER_PAGE) < 1 THEN 1
                     ELSE Ceil(Len(sorted), POSTS_PER_PAGE)

RECURSIVE ConcatPages(_, _)
ConcatPages(s, k) ==
    IF k = 0 THEN << >> ELSE ConcatPages(s, k - 1) \o Paginate(s, k)

\* C5: the page shown is the slice [(page-1)*pageSize, page*pageSize) of the
\* sorted sequence, and the pages 1..totalPages concatenated are the sorted
\* sequence itself: every post once, none missing.
C5_PagesRoundTrip ==
    /\ \A i \in 1..POSTS_PER_PAGE :
          LET k == (page - 1) * POSTS_PER_PAGE + i
          IN  IF k <= Len(sorted)
              THEN i <= Len(paginated) /\ paginated[i] = sorted[k]
              ELSE Len(paginated) < i
    /\ ConcatPages(sorted, totalPages) = sorted

\* C5 witness: a second page is shown, after a full first page.
C5_Witness ==
    /\ page = 2
    /\ totalPages = 2
    /\ Len(sorted) = 4
    /\ Len(paginated) = 1

\* C6: for the same collection, criteria, sort key and page, what the
\* client-filtering App shows is what the server-filtering App shows after
\* its request: the same ids in the same order, the same totalPages, the
\* same total.  (fetchPosts stores res.data.posts || [], total_pages || 1,
\* total || 0.)  Stated for collections whose posts all carry the metric,
\* and for queries without a date bound.
C6_SameAsDelegated ==
    (/\ ~loading
     /\ posts # << >>
     /\ dateFrom = << >> /\ dateTo = << >>
     /\ \A i \in 1..Len(posts) : Metric(posts[i], sortBy) # NaN) =>
        LET res == ServerQuery(posts, QueryParams(page, sortBy, search, category,
                                                  dateFrom, dateTo, firstName, lastName))
        IN  /\ Ids(paginated) = Ids(res.posts)
            /\ totalPages = (IF res.total_pages = 0 THEN 1 ELSE res.total_pages)
            /\ Len(sorted) = res.total

---------------------------------------------------------------------------
(* The server-filtering App (src/frontend/src/App.jsx, lines 1-135) *)

\* One GET /posts?... as fetchPosts issues it from the state of the render
\* whose closure it runs in; id is the order of issue.
Request(n, pg, key, srch, cat, from, to, fn, ln) ==
    [id |-> n, params |-> Just(QueryParams(pg, key, srch, cat, from, to, fn, ln))]

\* What the storage collaborator holds at start: nothing, or every post,
\* oldest first.
StoredCollections == {<< >>, InIdOrder(Universe, TRUE)}

\* State after the first render and its effects: the fetch effect has called
\* fetchPosts; the reset effect found page = 1.
Init ==
    /\ posts = << >>
    /\ loading = TRUE
    /\ totalPages = 1
    /\ total = 0
    /\ search = << >>
    /\ category = "All Categories"
    /\ dateFrom = << >>
    /\ dateTo = << >>
    /\ firstName = << >>
    /\ lastName = << >>
    /\ sortBy = "Most Recent"
    /\ page = 1
    /\ filtered = << >>
    /\ sorted = << >>
    /\ paginated = << >>
    /\ db \in StoredCollections
    /\ tz = 0
    /\ tieUp = TRUE
    /\ requests = {Request(1, 1, "Most Recent", << >>, "All Categories",
                           << >>, << >>, << >>, << >>)}
    /\ issued = 1
    /\ NoForm
    /\ stats = NoStats
    /\ NoHeader

refreshAllResumesEveryFetch(r) ==
    /\ refreshing' = refreshing \ {r.id}
    /\ published' = published + 1
    /\ statsRequests' = statsRequests + listeners
    /\ UNCHANGED <<mounted, listeners, toast, deletes>>

\* refreshAll, after its await fetchPosts(): when the request that just
\* completed is one a refreshAll call awaits, that call dispatches refreshStats,
\* and every registered listener (Header's handleStatsRefresh) calls fetchStats.
refreshAllResumes(r) ==
    IF r.id \in refreshing
    THEN /\ refreshing' = refreshing \ {r.id}
         /\ published' = published + 1
         /\ statsRequests' = statsRequests + listeners
         /\ UNCHANGED <<mounted, listeners, toast, deletes>>
    ELSE UNCHANGED headerVars

\* fetchPosts, from the response on.
FetchPostsOk(r) ==
    /\ r \in requests
    /\ requests' = requests \ {r}
    /\ LET res == ServerQuery(db, r.params[1])
       IN  /\ posts' = res.posts
           /\ totalPages' = (IF res.total_pages = 0 THEN 1 ELSE res.total_pages)
           /\ total' = res.total
    /\ loading' = FALSE
    /\ refreshAllResumes(r)
    /\ UNCHANGED <<search, category, dateFrom, dateTo, firstName, lastName,
                   sortBy, page, viewVars, envVars, issued, formVars>>

\* fetchPosts, when the request fails: the catch block empties the list.
FetchPostsFail(r) ==
    /\ r \in requests
    /\ requests' = requests \ {r}
    /\ posts' = << >>
    /\ totalPages' = 1
    /\ total' = 0
    /\ loading' = FALSE
    /\ refreshAllResumes(r)
    /\ UNCHANGED <<search, category, dateFrom, dateTo, firstName, lastName,
                   sortBy, page, viewVars, envVars, issued, formVars>>

\* What follows the render after a filter field or the sort key changed.
\* The effects run in the order they are declared: the fetch effect calls
\* fetchPosts with the page of this render; then the reset effect, if that
\* page is not 1, calls setPage(1), and the fetch effect of the next render
\* calls fetchPosts again.
EffectsAfterChange(key, srch, cat, from, to, fn, ln) ==
    LET n == IF page # 1 THEN 2 ELSE 1
    IN  /\ issued + n <= MaxRequests
        /\ requests' = requests
              \cup {Request(issued + 1, page, key, srch, cat, from, to, fn, ln)}
              \cup (IF page # 1
                    THEN {Request(issued + 2, 1, key, srch, cat, from, to, fn, ln)}
                    ELSE {})
        /\ issued' = issued + n
        /\ page' = 1
        /\ loading' = TRUE

setSearch(v) ==
    /\ v # search
    /\ search' = v
    /\ EffectsAfterChange(sortBy, v, category, dateFrom, dateTo, firstName, lastName)
    /\ UNCHANGED <<posts, totalPages, total, category, dateFrom, dateTo, firstName,
                   lastName, sortBy, viewVars, envVars, headerVars, formVars>>

setCategory(v) ==
    /\ v # category
    /\ category' = v
    /\ EffectsAfterChange(sortBy, search, v, dateFrom, dateTo, firstName, lastName)
    /\ UNCHANGED <<posts, totalPages, total, search, dateFrom, dateTo, firstName,
                   lastName, sortBy, viewVars, envVars, headerVars, formVars>>

setDateFrom(v) ==
    /\ v # dateFrom
    /\ dateFrom' = v
    /\ EffectsAfterChange(sortBy, search, category, v, dateTo, firstName, lastName)
    /\ UNCHANGED <<posts, totalPages, total, search, category, dateTo, firstName,
                   lastName, sortBy, viewVars, envVars, headerVars, formVars>>

setDateTo(v) ==
    /\ v # dateTo
    /\ dateTo' = v
    /\ EffectsAfterChange(sortBy, search, category, dateFrom, v, firstName, lastName)
    /\ UNCHANGED <<posts, totalPages, total, search, category, dateFrom, firstName,
                   lastName, sortBy, viewVars, envVars, headerVars, formVars>>

setFirstName(v) ==
    /\ v # firstName
    /\ firstName' = v
    /\ EffectsAfterChange(sortBy, search, category, dateFrom, dateTo, v, lastName)
    /\ UNCHANGED <<posts, totalPages, total, search, category, dateFrom, dateTo,
                   lastName, sortBy, viewVars, envVars, headerVars, formVars>>

setLastName(v) ==
    /\ v # lastName
    /\ lastName' = v
    /\ EffectsAfterChange(sortBy, search, category, dateFrom, dateTo, firstName, v)
    /\ UNCHANGED <<posts, totalPages, total, search, category, dateFrom, dateTo,
                   firstName, sortBy, viewVars, envVars, headerVars, formVars>>

setSortBy(v) ==
    /\ v # sortBy
    /\ sortBy' = v
    /\ EffectsAfterChange(v, search, category, dateFrom, dateTo, firstName, lastName)
    /\ UNCHANGED <<posts, totalPages, total, search, category, dateFrom, dateTo,
                   firstName, lastName, viewVars, envVars, headerVars, formVars>>

\* onClearAll: every setter and setPage(1) in one handler, one render; the
\* fetch effect runs once, with page 1, if anything changed.
onClearAll ==
    /\ <<search, category, dateFrom, dateTo, firstName, lastName, sortBy, page>>
         # <<(<< >>), "All Categories", << >>, << >>, << >>, << >>, "Most Recent", 1>>
    /\ search' = << >>
    /\ category' = "All Categories"
    /\ dateFrom' = << >>
    /\ dateTo' = << >>
    /\ firstName' = << >>
    /\ lastName' = << >>
    /\ sortBy' = "Most Recent"
    /\ issued + 1 <= MaxRequests
    /\ requests' = requests \cup {Request(issued + 1, 1, "Most Recent", << >>,
                                          "All Categories", << >>, << >>, << >>, << >>)}
    /\ issued' = issued + 1
    /\ page' = 1
    /\ loading' = TRUE
    /\ UNCHANGED <<posts, totalPages, total, viewVars, envVars, headerVars, formVars>>

\* setPage from the pagination control; the fetch effect follows.
GoToPage(pg) ==
    /\ issued + 1 <= MaxRequests
    /\ page' = pg
    /\ requests' = requests \cup {Request(issued + 1, pg, sortBy, search, category,
                                          dateFrom, dateTo, firstName, lastName)}
    /\ issued' = issued + 1
    /\ loading' = TRUE
    /\ UNCHANGED <<posts, totalPages, total, search, category, dateFrom, dateTo,
                   firstName, lastName, sortBy, viewVars, envVars, headerVars, formVars>>

\* Pagination: the Previous button, disabled on page 1
Previous ==
    /\ page # 1
    /\ GoToPage(page - 1)

\* Pagination: the Next button, disabled when page = totalPages
NextPage ==
    /\ page # totalPages
    /\ page < MaxPage
    /\ GoToPage(page + 1)

Next ==
    \/ \E r \in requests : FetchPostsOk(r)
    \/ \E r \in requests : FetchPostsFail(r)
    \/ \E v \in SearchTerms : setSearch(v)
    \/ \E v \in categories : setCategory(v)
    \/ \E v \in DateInputs : setDateFrom(v)
    \/ \E v \in DateInputs : setDateTo(v)
    \/ \E v \in FirstNames : setFirstName(v)
    \/ \E v \in LastNames : setLastName(v)
    \/ \E v \in sortOptions : setSortBy(v)
    \/ onClearAll
    \/ Previous
    \/ NextPage

Spec == Init /\ [][Next]_vars

---------------------------------------------------------------------------
(* Claims about the server-filtering App, checked under Spec *)

\* The criteria and sort key a request carries.
RequestCriteria(r) ==
    [sort_by |-> r.params[1].sort_by, search |-> r.params[1].search,
     category |-> r.params[1].category, date_from |-> r.params[1].date_from,
     date_to |-> r.params[1].date_to, first_name |-> r.params[1].first_name,
     last_name |-> r.params[1].last_name]

\* The criteria and sort key of the current state, as a request carries them.
StateCriteria ==
    RequestCriteria(Request(0, page, sortBy, search, category, dateFrom, dateTo,
                            firstName, lastName))

\* C7: whenever a criterion or the sort key changes, the page is reset to 1
\* before the query is issued: every request issued in a step whose criteria
\* or sort key differ from those before the step asks for page 1.
C7_PageResetBeforeQuery ==
    [][\A r \in requests' \ requests :
          RequestCriteria(r) # StateCriteria => r.params[1].page = 1]_vars

---------------------------------------------------------------------------
(* PostForm (src/frontend/src/components/PostForm.jsx) *)

\* A pattern that asks for no dot after the @: /^[^\s@]+@[^\s@]+$/.test(s)
emailRegexTestNoDot(s) ==
    \E i \in 1..Len(s) :
        /\ 1 < i /\ i < Len(s)
        /\ s[i] = "@"
        /\ \A k \in 1..Len(s) : ~IsSpace(s[k]) /\ (s[k] = "@" => k = i)

\* /^[^\s@]+@[^\s@]+\.[^\s@]+$/.test(s)
emailRegexTest(s) ==
    \E i, j \in 1..Len(s) :
        /\ 1 < i /\ i + 1 < j /\ j < Len(s)
        /\ s[i] = "@"
        /\ s[j] = "."
        /\ \A k \in 1..Len(s) : ~IsSpace(s[k]) /\ (s[k] = "@" => k = i)

\* Posts the form may be opened on in edit mode, as the storage collaborator
\* stores them: text trimmed, e-mail well-formed, optional fields absent or
\* non-empty.
EditAuthor(first, last, mail, comp, job) ==
    Just([first_name |-> first, last_name |-> last, email |-> mail,
          company |-> comp, job_title |-> job])

EditPost1 == [id |-> 1,
              author |-> EditAuthor(Just(<<"A", "l">>), Just(<<"B", "o">>),
                                    Just(<<"a", "@", "b", ".", "c">>),
                                    Just(<<"X">>), Just(<<"Y">>)),
              text |-> Just(<<"A", "b">>), category |-> Just("Marketing")]

\* No company, no job title, no category.
EditPost2 == [id |-> 2,
              author |-> EditAuthor(Just(<<"A", "l">>), Just(<<"B", "o">>),
                                    Just(<<"a", "@", "b", ".", "c">>),
                                    Nothing, Nothing),
              text |-> Just(<<"A", "b">>), category |-> Nothing]

\* No author object at all.
EditPost3 == [id |-> 3, author |-> Nothing,
              text |-> Just(<<"A", "b">>), category |-> Just("Product")]

EditPosts == {EditPost1, EditPost2, EditPost3}

(* What the user can type into the form *)
FirstNameInputs == {<< >>, <<" ">>, <<"A", "l">>, <<" ", "C", " ">>}
LastNameInputs  == {<< >>, <<"B", "o">>}
EmailInputs     == {<< >>, <<"a", "@", "b", ".", "c">>, <<"a", "@", "b">>,
                    <<" ", "c", "@", "d", ".", "e", " ">>}
CompanyInputs   == {<< >>, <<" ">>, <<"Z">>}
JobTitleInputs  == {<< >>, <<"W">>}
TextInputs      == {<< >>, <<"A", "b">>, <<" ", "C", "d", " ">>}
formCategories  == {"Product", "Marketing"}

\* post?.author?.<field> || ""
AuthorField(p, f) == IF p.author = Nothing THEN << >> ELSE OrEmpty(p.author[1][f])

\* The pre-fill effect, run when the form mounts with isEdit && post.
Prefill(p) ==
    [firstName |-> AuthorField(p, "first_name"),
     lastName  |-> AuthorField(p, "last_name"),
     email     |-> AuthorField(p, "email"),
     company   |-> AuthorField(p, "company"),
     jobTitle  |-> AuthorField(p, "job_title"),
     text      |-> OrEmpty(p.text),
     category  |-> IF p.category = Nothing THEN "Product" ELSE p.category[1]]

\* State after the form has mounted and its pre-fill effect has run.
InitForm ==
    /\ showForm = TRUE
    /\ isEdit \in BOOLEAN
    /\ post \in (IF isEdit THEN {Just(p) : p \in EditPosts} ELSE {Nothing})
    /\ form = (IF isEdit THEN Prefill(post[1]) ELSE EmptyForm)
    /\ error = ""
    /\ updateData = Nothing
    /\ sent = << >>
    /\ posts = << >>
    /\ loading = FALSE
    /\ totalPages = 1
    /\ total = 0
    /\ search = << >>
    /\ category = "All Categories"
    /\ dateFrom = << >>
    /\ dateTo = << >>
    /\ firstName = << >>
    /\ lastName = << >>
    /\ sortBy = "Most Recent"
    /\ page = 1
    /\ filtered = << >>
    /\ sorted = << >>
    /\ paginated = << >>
    /\ db = << >>
    /\ tz = 0
    /\ tieUp = TRUE
    /\ requests = {}
    /\ issued = 0
    /\ stats = NoStats
    /\ NoHeader

\* onChange of one input: the field's setter.
Type(field, v) ==
    /\ showForm
    /\ v # form[field]
    /\ form' = [form EXCEPT ![field] = v]
    /\ updateData' = Nothing
    /\ UNCHANGED <<showForm, isEdit, post, error, sent,
                   appVars, viewVars, envVars, headerVars, netVars>>

\* A required-field rule without the non-blank test.
RequiredChangeAlsoBlank(name, draft, original) ==
    IF Trim(draft) # original THEN name :> Just(Trim(draft)) ELSE << >>

\* A required field enters the change-set with its trimmed value when that
\* is not blank and differs from the original.
RequiredChange(name, draft, original) ==
    IF Trim(draft) # << >> /\ Trim(draft) # original
    THEN name :> Just(Trim(draft))
    ELSE << >>

\* An optional-field rule that sends the empty string instead of null.
OptionalChangeKeepsEmpty(name, draft, original) ==
    IF Trim(draft) # original THEN name :> Just(Trim(draft)) ELSE << >>

\* An optional field enters the change-set when its trimmed value differs
\* from the original: with that value, or with null when it is blank.
OptionalChange(name, draft, original) ==
    IF Trim(draft) # original
    THEN name :> (IF Trim(draft) = << >> THEN Nothing ELSE Just(Trim(draft)))
    ELSE << >>

\* A category rule that sends the category whether it changed or not.
CategoryChangeAlways(draft, original) ==
    IF draft # "" THEN "category" :> Just(draft) ELSE << >>

\* if (category && category !== (post?.category || "")) updateData.category = ...
CategoryChange(draft, original) ==
    IF draft # "" /\ draft # OrEmptyName(original)
    THEN "category" :> Just(draft)
    ELSE << >>

\* updateData as handleSubmit builds it in edit mode.
BuildUpdateData(f, p) ==
    RequiredChange("first_name", f.firstName, AuthorField(p, "first_name"))
      @@ RequiredChange("last_name", f.lastName, AuthorField(p, "last_name"))
      @@ RequiredChange("email", f.email, AuthorField(p, "email"))
      @@ OptionalChange("company", f.company, AuthorField(p, "company"))
      @@ OptionalChange("job_title", f.jobTitle, AuthorField(p, "job_title"))
      @@ RequiredChange("text", f.text, OrEmpty(p.text))
      @@ CategoryChange(f.category, p.category)

\* postData as handleSubmit builds it in create mode.
BuildPostData(f) ==
    [first_name |-> Just(Trim(f.firstName)),
     last_name  |-> Just(Trim(f.lastName)),
     email      |-> Just(Trim(f.email)),
     company    |-> IF Trim(f.company) = << >> THEN Nothing ELSE Just(Trim(f.company)),
     job_title  |-> IF Trim(f.jobTitle) = << >> THEN Nothing ELSE Just(Trim(f.jobTitle)),
     text       |-> Just(Trim(f.text)),
     category   |-> IF f.category = "" THEN Nothing ELSE Just(f.category)]

InvalidEmailError == "Please enter a valid email address"
NoChangesError    == "No changes detected. Please modify at least one field."
RequiredError     == "First name, last name, email, and post text are required"
UpdateFailedError == "Failed to update post. Please try again."
CreateFailedError == "Failed to create post. Please try again."
ServerDetail      == "detail"
PostAddedMessage   == "Post added successfully!"
PostUpdatedMessage == "Post updated successfully!"

\* What fetchPosts of the current render would ask for.  A handler that
\* awaits a response keeps the fetchPosts of the render it was started in.
RenderParams ==
    QueryParams(page, sortBy, search, category, dateFrom, dateTo, firstName, lastName)

\* handleSubmit in edit mode, up to the await of axios.put.
SubmitEdit ==
    /\ isEdit
    /\ IF Trim(form.email) # << >> /\ ~emailRegexTest(Trim(form.email))
       THEN /\ error' = InvalidEmailError
            /\ updateData' = Nothing
            /\ sent' = sent
       ELSE /\ updateData' = Just(BuildUpdateData(form, post[1]))
            /\ IF DOMAIN BuildUpdateData(form, post[1]) = {}
               THEN /\ error' = NoChangesError
                    /\ sent' = sent
               ELSE /\ error' = ""
                    /\ sent' = Append(sent, [method |-> "PUT", id |-> post[1].id,
                                             closure |-> RenderParams])

\* handleSubmit in create mode, up to the await of axios.post.
SubmitCreate ==
    /\ ~isEdit
    /\ IF \/ Trim(form.firstName) = << >> \/ Trim(form.lastName) = << >>
          \/ Trim(form.email) = << >> \/ Trim(form.text) = << >>
       THEN /\ error' = RequiredError
            /\ updateData' = Nothing
            /\ sent' = sent
       ELSE IF ~emailRegexTest(Trim(form.email))
            THEN /\ error' = InvalidEmailError
                 /\ updateData' = Nothing
                 /\ sent' = sent
            ELSE /\ error' = ""
                 /\ updateData' = Just(BuildPostData(form))
                 /\ sent' = Append(sent, [method |-> "POST", id |-> 0,
                                          closure |-> RenderParams])

\* required={!isEdit} on the first name, last name, email and text inputs:
\* the browser raises no submit event while one of them is empty.
RequiredInputsFilled ==
    isEdit \/ (/\ form.firstName # << >> /\ form.lastName # << >>
               /\ form.email # << >> /\ form.text # << >>)

\* The submit button: e.preventDefault(); setError(""); then the mode's branch.
handleSubmit ==
    /\ showForm
    /\ RequiredInputsFilled
    /\ Len(sent) < MaxInFlight
    /\ (SubmitEdit \/ SubmitCreate)
    /\ UNCHANGED <<showForm, isEdit, post, form, appVars, viewVars, envVars, headerVars, netVars>>

RemoveAt(s, i) == SubSeq(s, 1, i - 1) \o SubSeq(s, i + 1, Len(s))

\* refreshAll, up to the await inside fetchPosts: setPage(1) when asked,
\* setLoading(true), and the GET built from the state of the render the
\* calling handler was started in (closure).  When setPage(1) changes the
\* page, the fetch effect of the next render calls fetchPosts once more.
refreshAll(resetPage, closure) ==
    /\ page' = (IF resetPage THEN 1 ELSE page)
    /\ loading' = TRUE
    /\ refreshing' = refreshing \cup {issued + 1}
    /\ IF resetPage /\ page # 1
       THEN /\ issued' = issued + 2
            /\ requests' = requests \cup
                   {[id |-> issued + 1, params |-> Just(closure)],
                    Request(issued + 2, 1, sortBy, search, category,
                            dateFrom, dateTo, firstName, lastName)}
       ELSE /\ issued' = issued + 1
            /\ requests' = requests \cup {[id |-> issued + 1, params |-> Just(closure)]}
    /\ UNCHANGED <<posts, totalPages, total, search, category, dateFrom, dateTo,
                   firstName, lastName, sortBy>>

\* The request succeeded: onSuccess(...); closeForm(); fetchPosts(true) after
\* a create, fetchPosts(false) after an update.
SubmitResolved(i) ==
    /\ i \in 1..Len(sent)
    /\ sent' = RemoveAt(sent, i)
    /\ showForm' = FALSE
    /\ updateData' = Nothing
    /\ toast' = Just([message |-> IF sent[i].method = "POST" THEN PostAddedMessage
                                   ELSE PostUpdatedMessage,
                       type |-> "success"])
    /\ refreshAll(sent[i].method = "POST", sent[i].closure)
    /\ UNCHANGED <<isEdit, post, form, error, viewVars,
                   statsRequests, mounted, listeners, published, deletes>>

\* The same, seen from the form alone: what the request did to the stored
\* collection is not looked at.
SubmitOk(i) == SubmitResolved(i) /\ UNCHANGED envVars

\* The request failed: setError(err.response?.data?.detail || "Failed to ...").
SubmitFail(i, detail) ==
    /\ i \in 1..Len(sent)
    /\ sent' = RemoveAt(sent, i)
    /\ error' = (IF detail # Nothing THEN detail[1]
                 ELSE IF sent[i].method = "PUT" THEN UpdateFailedError
                 ELSE CreateFailedError)
    /\ updateData' = Nothing
    /\ UNCHANGED <<showForm, isEdit, post, form, appVars, viewVars, envVars, headerVars, netVars>>

\* The Cancel button, or a click on the overlay.
closeForm ==
    /\ showForm
    /\ showForm' = FALSE
    /\ updateData' = Nothing
    /\ UNCHANGED <<isEdit, post, form, error, sent, appVars, viewVars, envVars, headerVars, netVars>>

NextForm ==
    \/ \E v \in FirstNameInputs : Type("firstName", v)
    \/ \E v \in LastNameInputs : Type("lastName", v)
    \/ \E v \in EmailInputs : Type("email", v)
    \/ \E v \in CompanyInputs : Type("company", v)
    \/ \E v \in JobTitleInputs : Type("jobTitle", v)
    \/ \E v \in TextInputs : Type("text", v)
    \/ \E v \in formCategories : Type("category", v)
    \/ handleSubmit
    \/ \E i \in 1..Len(sent) : SubmitOk(i)
    \/ \E i \in 1..Len(sent), detail \in {Nothing, Just(ServerDetail)} : SubmitFail(i, detail)
    \/ closeForm

SpecForm == InitForm /\ [][NextForm]_vars

---------------------------------------------------------------------------
(* Claims about the edit-mode change-set, checked under SpecForm *)

\* C8: in edit mode, submitting the form exactly as pre-filled from the post
\* sets the no-changes error and issues no PUT, whatever the post, including
\* posts without a category, a company or a job title.
C8_UnchangedDraftRejected ==
    [][(handleSubmit /\ isEdit /\ form = Prefill(post[1]))
         => (error' = NoChangesError /\ sent' = sent)]_vars

\* The state right after handleSubmit built a change-set in edit mode.
ChangeSetBuilt == showForm /\ isEdit /\ updateData # Nothing

\* post.author?.<field> is a non-empty string
OriginalPresent(f) ==
    /\ post[1].author # Nothing
    /\ post[1].author[1][f] # Nothing
    /\ post[1].author[1][f][1] # << >>

\* post.author?.<field> is undefined or null
OriginalAbsent(f) ==
    post[1].author = Nothing \/ post[1].author[1][f] = Nothing

OptionalFields == {<<"company", "company">>, <<"job_title", "jobTitle">>}

\* C9: in edit mode, an optional field (company, job title) whose original is
\* a non-empty string and whose draft is blank after trimming is in the
\* change-set with the value null; one whose original is absent and whose
\* draft is blank is not in the change-set.
C9_ClearedOptionalIsNull ==
    ChangeSetBuilt =>
        \A f \in OptionalFields :
            Trim(form[f[2]]) = << >> =>
                /\ OriginalPresent(f[1]) =>
                       /\ f[1] \in DOMAIN updateData[1]
                       /\ updateData[1][f[1]] = Nothing
                /\ OriginalAbsent(f[1]) => f[1] \notin DOMAIN updateData[1]

\* The company "X" was replaced by a blank and the form submitted.
C9_Witness ==
    /\ ChangeSetBuilt
    /\ OriginalPresent("company")
    /\ form.company = <<" ">>
    /\ "company" \in DOMAIN updateData[1]
    /\ updateData[1]["company"] = Nothing
    /\ sent # << >>

RequiredFields == {<<"first_name", "firstName">>, <<"last_name", "lastName">>,
                   <<"email", "email">>, <<"text", "text">>}

\* C10: in edit mode, a required field (first name, last name, email, text)
\* whose draft is blank after trimming is never in the change-set, with any
\* value, whatever its original was.
C10_BlankRequiredOmitted ==
    ChangeSetBuilt =>
        \A f \in RequiredFields :
            Trim(form[f[2]]) = << >> => f[1] \notin DOMAIN updateData[1]

\* The first name "Al" was replaced by a blank, the e-mail emptied, another
\* field changed, and the form submitted.
C10_Witness ==
    /\ ChangeSetBuilt
    /\ OriginalPresent("first_name")
    /\ OriginalPresent("email")
    /\ form.firstName = <<" ">>
    /\ form.email = << >>
    /\ DOMAIN updateData[1] # {}
    /\ "first_name" \notin DOMAIN updateData[1]
    /\ "email" \notin DOMAIN updateData[1]
    /\ sent # << >>

\* The text inputs of the form: <<key of updateData, state variable>>.
TextFields == RequiredFields \cup OptionalFields

\* The draft of a text input, trimmed as handleSubmit trims it.
TrimmedDraft(f) == Trim(form[f[2]])

\* The original value handleSubmit compares with: post?.text || "" or
\* post?.author?.<field> || "".
OriginalOrEmpty(f) ==
    IF f[1] = "text" THEN OrEmpty(post[1].text) ELSE AuthorField(post[1], f[1])

\* C11: the change-set of an edit holds only changed fields: each field in it
\* has a trimmed draft that differs from the original (a missing original
\* counting as ""), and each field whose trimmed draft is non-blank and
\* differs from the original is in it with the trimmed draft as its value.
C11_OnlyChangedFields ==
    ChangeSetBuilt =>
        LET cs == updateData[1]
        IN  /\ DOMAIN cs \subseteq {f[1] : f \in TextFields} \cup {"category"}
            /\ \A f \in TextFields :
                   /\ f[1] \in DOMAIN cs => TrimmedDraft(f) # OriginalOrEmpty(f)
                   /\ (TrimmedDraft(f) # << >> /\ TrimmedDraft(f) # OriginalOrEmpty(f))
                          => (f[1] \in DOMAIN cs /\ cs[f[1]] = Just(TrimmedDraft(f)))
            /\ "category" \in DOMAIN cs => form.category # OrEmptyName(post[1].category)
            /\ (form.category # "" /\ form.category # OrEmptyName(post[1].category))
                   => ("category" \in DOMAIN cs /\ cs["category"] = Just(form.category))

\* The first name " C " was typed over "Al" and the form submitted: the PUT
\* carries first_name "C" and nothing else.
C11_Witness ==
    /\ ChangeSetBuilt
    /\ post[1].id = 1
    /\ form.firstName = <<" ", "C", " ">>
    /\ DOMAIN updateData[1] = {"first_name"}
    /\ updateData[1]["first_name"] = Just(<<"C">>)
    /\ sent # << >>

\* s reads local@domain.tld: three non-empty parts without white space or @.
NoSpaceNoAt(s) == s # << >> /\ \A k \in 1..Len(s) : ~IsSpace(s[k]) /\ s[k] # "@"

HasEmailShape(s) ==
    \E i, j \in 1..Len(s) :
        /\ i < j /\ s[i] = "@" /\ s[j] = "."
        /\ NoSpaceNoAt(SubSeq(s, 1, i - 1))
        /\ NoSpaceNoAt(SubSeq(s, i + 1, j - 1))
        /\ NoSpaceNoAt(SubSeq(s, j + 1, Len(s)))

\* The draft cannot be submitted: in create mode a required field is blank
\* after trimming or the trimmed e-mail is not local@domain.tld; in edit mode
\* the trimmed e-mail is not blank and is not local@domain.tld.
InvalidDraft ==
    IF isEdit
    THEN Trim(form.email) # << >> /\ ~HasEmailShape(Trim(form.email))
    ELSE \/ \E f \in RequiredFields : Trim(form[f[2]]) = << >>
         \/ ~HasEmailShape(Trim(form.email))

\* C12: a submission of an invalid draft ends in a validation error shown in
\* the form: no POST or PUT is issued, the form stays open, no posts refresh
\* is started and no refreshStats event is dispatched; and no request is ever
\* added from an invalid draft.
C12_InvalidDraftBlocked ==
    [][/\ (handleSubmit /\ InvalidDraft)
            => /\ error' \in {RequiredError, InvalidEmailError}
               /\ sent' = sent
               /\ showForm'
               /\ requests' = requests /\ refreshing' = refreshing
               /\ published' = published /\ statsRequests' = statsRequests
       /\ (Len(sent') > Len(sent)) => ~InvalidDraft]_vars

\* The create form was submitted with the e-mail "a@b": the error is shown
\* and nothing was sent.
C12_Witness ==
    /\ showForm /\ ~isEdit
    /\ \A f \in RequiredFields : Trim(form[f[2]]) # << >>
    /\ form.email = <<"a", "@", "b">>
    /\ error = InvalidEmailError
    /\ sent = << >>
    /\ requests = {}

---------------------------------------------------------------------------
(* Claims about the statistics, checked under SpecInProcess *)

\* The sum of a counter over the posts at the positions I of s, a missing
\* counter counting as 0.
RECURSIVE CounterTotal(_, _, _)
CounterTotal(I, s, field) ==
    IF I = {} THEN 0
    ELSE LET i == CHOOSE k \in I : TRUE
         IN  (IF s[i][field] = Nothing THEN 0 ELSE s[i][field][1])
               + CounterTotal(I \ {i}, s, field)

CountsAreTotals ==
    /\ stats.totalPosts = Len(posts)
    /\ stats.totalLikes = CounterTotal(DOMAIN posts, posts, "likes")
    /\ stats.totalComments = CounterTotal(DOMAIN posts, posts, "comments")
    /\ posts = << >> => stats.avgEngagement = 0

\* C13 as stated: the statistics are the number of posts, the sums of likes
\* and of comments (missing counted as 0) and the mean of the engagement
\* rates; all four are 0 for the empty collection.
C13_StatsWithExactMean ==
    /\ CountsAreTotals
    /\ stats.avgEngagement * Len(posts)
           = CounterTotal(DOMAIN posts, posts, "engagement_rate")

\* C13 amended: the average engagement rate is the mean rounded to one
\* decimal place (a nearest tenth), the rest as stated.
C13_StatsWithRoundedMean ==
    /\ CountsAreTotals
    /\ LET n == Len(posts)
           d == n * stats.avgEngagement
                  - CounterTotal(DOMAIN posts, posts, "engagement_rate")
       IN  2 * d <= n /\ -2 * d <= n

\* Three posts, one of them without likes and without engagement rate: the
\* rates 1.2, 2.5 and none give 1.2, the likes 5, 5 and none give 10.
C13_Witness ==
    /\ Len(posts) = 3
    /\ \E i \in 1..3 : posts[i].likes = Nothing /\ posts[i].engagement_rate = Nothing
    /\ stats.totalLikes = 10
    /\ stats.avgEngagement = 12

\* C14: the statistics describe the full collection: a change of the search
\* term, a filter, the sort key or the page (any step that keeps the fetched
\* posts) leaves them as they were, and after every step they count all the
\* fetched posts, not the filtered ones or the page shown.
C14_StatsOfFullCollection ==
    [][/\ posts' = posts => stats' = stats
       /\ stats'.totalPosts = Len(posts')
       /\ stats'.totalLikes = CounterTotal(DOMAIN posts', posts', "likes")
       /\ stats'.totalComments = CounterTotal(DOMAIN posts', posts', "comments")]_vars

\* Four posts fetched, a search term that keeps fewer of them, the second
\* criterion set as well, and the statistics still count four posts.
C14_Witness ==
    /\ ~loading
    /\ Len(posts) = 4
    /\ search # << >>
    /\ sortBy # "Most Recent"
    /\ Len(filtered) < Len(posts)
    /\ Len(paginated) < Len(posts)
    /\ stats.totalPosts = 4
    /\ stats.totalLikes = 11

---------------------------------------------------------------------------
(* The server-filtering App with its Header (src/unnamed/part_004), the
   PostForm the Header shows and the PostCards of the grid
   (src/unnamed/part_003): creating, updating and deleting posts.  The
   criteria stay at their defaults; the form starts with a draft typed in. *)

\* Most mutations (POST, PUT, DELETE) that succeed in one behaviour.
MaxMutations == 2
\* Most Header mounts in one behaviour.
MaxStatsRequests == 2
MaxPageChanges == 2

(* The storage collaborator *)

\* GET /posts/stats
ServerStats(collection) ==
    [total_posts |-> Len(collection),
     total_likes |-> SumOf(collection, "likes"),
     total_comments |-> SumOf(collection, "comments"),
     avg_engagement_rate |->
         IF collection = << >> THEN 0
         ELSE ToFixed1(SumOf(collection, "engagement_rate"), Len(collection), TRUE)]

HasId(collection, n) == \E k \in 1..Len(collection) : collection[k].id = n

\* DELETE /posts/{id}
ServerDelete(collection, n) == SelectSeq(collection, LAMBDA p : p.id # n)

RECURSIVE MaxId(_)
MaxId(collection) ==
    IF collection = << >> THEN 0
    ELSE LET m == MaxId(Tail(collection))
         IN  IF Head(collection).id > m THEN Head(collection).id ELSE m

\* POST /posts: a new post with the next id and no engagement yet.
ServerCreate(collection, body) ==
    Append(collection,
           [id |-> MaxId(collection) + 1, text |-> body.text,
            category |-> body.category,
            author |-> Author(body.first_name, body.last_name),
            post_date |-> <<4, 0>>,
            likes |-> Just(0), comments |-> Just(0),
            total_engagements |-> Just(0), engagement_rate |-> Just(0)])

\* PUT /posts/{id}: the fields of the change-set replace those of the post.
ServerUpdate(collection, n, cs) ==
    [k \in 1..Len(collection) |->
        LET p == collection[k]
            a == IF p.author = Nothing THEN [first_name |-> Nothing, last_name |-> Nothing]
                 ELSE p.author[1]
        IN  IF p.id # n THEN p
            ELSE [p EXCEPT
                    !.text = IF "text" \in DOMAIN cs THEN cs["text"] ELSE @,
                    !.category = IF "category" \in DOMAIN cs THEN cs["category"] ELSE @,
                    !.author = IF {"first_name", "last_name"} \cap DOMAIN cs = {} THEN @
                               ELSE Just([first_name |-> IF "first_name" \in DOMAIN cs
                                                    THEN cs["first_name"] ELSE a.first_name,
                                     last_name |-> IF "last_name" \in DOMAIN cs
                                                   THEN cs["last_name"] ELSE a.last_name])]]


(* Drafts typed into the form before the first step *)

ValidCreateDraft ==
    [EmptyForm EXCEPT !.firstName = <<"A", "l">>, !.lastName = <<"B", "o">>,
                      !.email = <<"a", "@", "b", ".", "c">>, !.text = <<"A", "b">>]

InvalidCreateDraft == [ValidCreateDraft EXCEPT !.email = <<"a", "@", "b">>]

ChangedEditDraft == [Prefill(EditPost1) EXCEPT !.firstName = <<" ", "C", " ">>]

\* <<isEdit, post, form>> of the form the behaviour starts with.
StartingForms ==
    {<<FALSE, Nothing, ValidCreateDraft>>, <<FALSE, Nothing, InvalidCreateDraft>>,
     <<TRUE, Just(EditPost1), ChangedEditDraft>>,
     <<TRUE, Just(EditPost1), Prefill(EditPost1)>>}

\* The App at rest on page 1 of the four stored posts, the Header mounted
\* with its listener and its statistics loaded, the form open on a draft
\* or closed.
InitPage(open) ==
    /\ db = InIdOrder(Universe, TRUE)
    /\ tz = 0
    /\ tieUp = TRUE
    /\ search = << >>
    /\ category = "All Categories"
    /\ dateFrom = << >>
    /\ dateTo = << >>
    /\ firstName = << >>
    /\ lastName = << >>
    /\ sortBy = "Most Recent"
    /\ page = 1
    /\ LET res == ServerQuery(db, RenderParams)
       IN  /\ posts = res.posts
           /\ totalPages = (IF res.total_pages = 0 THEN 1 ELSE res.total_pages)
           /\ total = res.total
    /\ loading = FALSE
    /\ filtered = << >>
    /\ sorted = << >>
    /\ paginated = << >>
    /\ requests = {}
    /\ issued = 1
    /\ showForm = open
    /\ \E start \in IF open THEN StartingForms ELSE {<<FALSE, Nothing, EmptyForm>>} :
           /\ isEdit = start[1]
           /\ post = start[2]
           /\ form = start[3]
    /\ error = ""
    /\ updateData = Nothing
    /\ sent = << >>
    /\ stats = ServerStats(db)
    /\ statsRequests = 0
    /\ mounted = TRUE
    /\ listeners = 1
    /\ published = 0
    /\ refreshing = {}
    /\ toast = Nothing
    /\ deletes = << >>

InitMutations == InitPage(TRUE)

\* The mutations that succeeded, and those that still may.
MutationsDone == published + Cardinality(refreshing)
MutationBudget == MutationsDone + Len(sent) + Len(deletes) < MaxMutations

\* The POST or PUT succeeded; the stored collection has changed by then.
SubmitStored(i) ==
    /\ SubmitResolved(i)
    /\ db' = (IF sent[i].method = "POST" THEN ServerCreate(db, BuildPostData(form))
              ELSE ServerUpdate(db, sent[i].id, BuildUpdateData(form, post[1])))
    /\ UNCHANGED <<tz, tieUp>>

DeleteFailedMessage == "Failed to delete post. Please try again."
PostDeletedMessage  == "Post deleted successfully!"

\* The Delete button of a card, confirmed: handleDelete up to the await of
\* axios.delete.  The grid shows cards only while loading is false.
handleDelete(p) ==
    /\ ~loading
    /\ p \in Range(posts)
    /\ deletes' = Append(deletes, [id |-> p.id, closure |-> RenderParams])
    /\ UNCHANGED <<appVars, viewVars, envVars, netVars, formVars,
                   statsRequests, mounted, listeners, published, refreshing, toast>>

\* The DELETE succeeded: onSuccess(...), fetchPosts(false).
DeleteOk(i) ==
    /\ i \in 1..Len(deletes)
    /\ HasId(db, deletes[i].id)
    /\ deletes' = RemoveAt(deletes, i)
    /\ db' = ServerDelete(db, deletes[i].id)
    /\ toast' = Just([message |-> PostDeletedMessage, type |-> "success"])
    /\ refreshAll(FALSE, deletes[i].closure)
    /\ UNCHANGED <<viewVars, tz, tieUp, formVars, statsRequests, mounted, listeners, published>>

\* The DELETE failed: onError(err.response?.data?.detail || "Failed to ...").
DeleteFail(i, detail) ==
    /\ i \in 1..Len(deletes)
    /\ deletes' = RemoveAt(deletes, i)
    /\ toast' = Just([message |-> IF detail # Nothing THEN detail[1]
                                   ELSE DeleteFailedMessage,
                       type |-> "error"])
    /\ UNCHANGED <<appVars, viewVars, envVars, netVars, formVars,
                   statsRequests, mounted, listeners, published, refreshing>>

\* The toast's timer or its close button: hideToast.
hideToast ==
    /\ toast # Nothing
    /\ toast' = Nothing
    /\ UNCHANGED <<appVars, viewVars, envVars, netVars, formVars,
                   statsRequests, mounted, listeners, published, refreshing, deletes>>

\* fetchStats, from the response on: setStats(res.data).
FetchStatsOk ==
    /\ statsRequests > 0
    /\ statsRequests' = statsRequests - 1
    /\ stats' = (IF mounted THEN ServerStats(db) ELSE stats)
    /\ UNCHANGED <<appVars, filtered, sorted, paginated, envVars, netVars, formVars,
                   mounted, listeners, published, refreshing, toast, deletes>>

\* fetchStats, when the request fails: console.error and nothing else.
FetchStatsFail ==
    /\ statsRequests > 0
    /\ statsRequests' = statsRequests - 1
    /\ UNCHANGED <<appVars, viewVars, envVars, netVars, formVars,
                   mounted, listeners, published, refreshing, toast, deletes>>

UnmountHeaderKeepsListener ==
    /\ mounted
    /\ mounted' = FALSE
    /\ showForm' = FALSE
    /\ UNCHANGED <<appVars, viewVars, envVars, netVars, isEdit, post, form, error,
                   updateData, sent, statsRequests, listeners, published, refreshing,
                   toast, deletes>>

\* The Header leaves the page: the cleanup of its effect removes the listener,
\* and the form it hosted goes with it.  Requests already sent keep running.
UnmountHeader ==
    /\ mounted
    /\ mounted' = FALSE
    /\ listeners' = listeners - 1
    /\ showForm' = FALSE
    /\ UNCHANGED <<appVars, viewVars, envVars, netVars, isEdit, post, form, error,
                   updateData, sent, statsRequests, published, refreshing, toast, deletes>>

\* The Header mounts with its initial state; its effect calls fetchStats()
\* and adds the listener.
MountHeader ==
    /\ ~mounted
    /\ statsRequests < MaxStatsRequests
    /\ mounted' = TRUE
    /\ stats' = NoStats
    /\ statsRequests' = statsRequests + 1
    /\ listeners' = listeners + 1
    /\ UNCHANGED <<appVars, filtered, sorted, paginated, envVars, netVars, formVars,
                   published, refreshing, toast, deletes>>

NextMutations ==
    \/ (handleSubmit /\ MutationBudget)
    \/ \E i \in 1..Len(sent) : SubmitStored(i)
    \/ \E i \in 1..Len(sent), detail \in {Nothing, Just(ServerDetail)} : SubmitFail(i, detail)
    \/ closeForm
    \/ \E p \in Range(posts) : (handleDelete(p) /\ MutationBudget)
    \/ \E i \in 1..Len(deletes) : DeleteOk(i)
    \/ \E i \in 1..Len(deletes), detail \in {Nothing, Just(ServerDetail)} : DeleteFail(i, detail)
    \/ hideToast
    \/ \E r \in requests : FetchPostsOk(r)
    \/ \E r \in requests : FetchPostsFail(r)
    \/ FetchStatsOk
    \/ FetchStatsFail
    \/ (Previous /\ issued <= MaxPageChanges)
    \/ (NextPage /\ issued <= MaxPageChanges)

SpecMutations == InitMutations /\ [][NextMutations]_vars

\* The same page with the form closed, and a Header that comes and goes.
InitHeader == InitPage(FALSE)

NextHeader ==
    \/ \E p \in Range(posts) : (handleDelete(p) /\ MutationBudget)
    \/ \E i \in 1..Len(deletes) : DeleteOk(i)
    \/ \E i \in 1..Len(deletes), detail \in {Nothing, Just(ServerDetail)} : DeleteFail(i, detail)
    \/ hideToast
    \/ \E r \in requests : FetchPostsOk(r)
    \/ \E r \in requests : FetchPostsFail(r)
    \/ FetchStatsOk
    \/ FetchStatsFail
    \/ UnmountHeader
    \/ MountHeader

SpecHeader == InitHeader /\ [][NextHeader]_vars


(* C15: every create, update or delete that succeeds starts one posts
   re-fetch and leads to exactly one refreshStats event, published in the
   step in which that re-fetch completes and not before; a mutation that
   fails, and a submit that validation blocks, start no re-fetch and publish
   nothing. *)
C15_OneEventPerSuccessfulMutation ==
    [][LET succeeded == \/ \E i \in 1..Len(sent) : SubmitStored(i)
                        \/ \E i \in 1..Len(deletes) : DeleteOk(i)
           failed    == \/ \E i \in 1..Len(sent), detail \in {Nothing, Just(ServerDetail)} :
                              SubmitFail(i, detail)
                        \/ \E i \in 1..Len(deletes), detail \in {Nothing, Just(ServerDetail)} :
                              DeleteFail(i, detail)
           blocked   == handleSubmit /\ sent' = sent
           started   == refreshing' \ refreshing
           finished  == refreshing \ refreshing'
       IN  /\ succeeded => /\ Cardinality(started) = 1
                           /\ \E r \in requests' \ requests : r.id \in started
                           /\ published' = published
           /\ failed \/ blocked => /\ started = {}
                                   /\ finished = {}
                                   /\ requests' = requests
           /\ ~succeeded => started = {}
           /\ published' = published + Cardinality(finished)
           /\ Cardinality(finished) <= 1
           /\ \A n \in finished : \E r \in requests \ requests' : r.id = n
           /\ \A n \in refreshing' : \E r \in requests' : r.id = n]_vars

\* Two mutations succeeded; the first one's event is out, the second one's
\* re-fetch is still in flight.
C15_Witness ==
    /\ published = 1
    /\ Cardinality(refreshing) = 1
    /\ Len(db) # Cardinality(Universe) + 1


(* C16: the Header has its refreshStats listener registered exactly while
   it is mounted, never more than one; every refreshStats event published
   while it is mounted starts one statistics request, and an event published
   while it is not mounted starts none. *)
C16_ListenerWhileMounted ==
    [][/\ listeners = (IF mounted THEN 1 ELSE 0)
       /\ listeners' = (IF mounted' THEN 1 ELSE 0)
       /\ published' # published =>
              statsRequests' = statsRequests +
                  (IF mounted THEN published' - published ELSE 0)]_vars

\* Both deletions have published their event, the Header is gone and has been
\* back in between, and no statistics request is in flight.
C16_Witness ==
    /\ ~mounted
    /\ published = MaxMutations
    /\ refreshing = {}
    /\ statsRequests = 0
    /\ stats = NoStats


(* C17: a failed remote call (posts fetch, statistics fetch, create, update
   or delete) leaves the posts, totalPages, total and statistics on display
   as they were, shows the user a notification (an error toast, or the
   form's inline error), and issues no request of its own. *)
C17_FailurePreservesDisplay ==
    [][LET failed == \/ \E r \in requests : FetchPostsFail(r)
                     \/ FetchStatsFail
                     \/ \E i \in 1..Len(sent), detail \in {Nothing, Just(ServerDetail)} :
                           SubmitFail(i, detail)
                     \/ \E i \in 1..Len(deletes), detail \in {Nothing, Just(ServerDetail)} :
                           DeleteFail(i, detail)
       IN  failed =>
               /\ posts' = posts
               /\ totalPages' = totalPages
               /\ total' = total
               /\ stats' = stats
               /\ \/ toast' # Nothing /\ toast'[1].type = "error"
                  \/ showForm' /\ error' # ""
               /\ issued' = issued]_vars


(* C18: once no request is in flight, the posts, totalPages and total on
   display are those of the response to the most recently issued request,
   the one for the current criteria, sort key and page (or, when that
   request failed, what the failure handler shows), whatever the order in
   which the responses arrived. *)
C18_LatestResponseDisplayed ==
    requests = {} =>
        LET res == ServerQuery(db, RenderParams)
        IN  \/ /\ posts = res.posts
               /\ totalPages = (IF res.total_pages = 0 THEN 1 ELSE res.total_pages)
               /\ total = res.total
            \/ /\ posts = << >>
               /\ totalPages = 1
               /\ total = 0


(* C19: after every render, a fetched post whose post_date does not parse
   is absent from filtered whenever dateFrom or dateTo is set; when neither
   is set it is in filtered exactly when it passes the search, category and
   name criteria; and filtered is always a list of fetched posts. *)
C19_UnparsedDateExcludedUnderBounds ==
    /\ Range(filtered) \subseteq Range(posts)
    /\ \A p \in Range(posts) :
          p.post_date = NotADate =>
              IF dateFrom # << >> \/ dateTo # << >>
              THEN p \notin Range(filtered)
              ELSE p \in Range(filtered) <=>
                       /\ matchesSearch(p, search)
                       /\ matchesCategory(p, category)
                       /\ matchesFirstName(p, firstName)
                       /\ matchesLastName(p, lastName)

\* Only dateTo is set; the post without a date is fetched and filtered out,
\* others stay.
C19_Witness ==
    /\ Post3 \in Range(posts)
    /\ dateFrom = << >>
    /\ dateTo # << >>
    /\ filtered # << >>
    /\ Post3 \notin Range(filtered)


(* C20: sorting is idempotent: whatever the collection and the sort key,
   sorting the sequence the render has just sorted gives that same sequence
   again, also when posts tie on the metric or have a post_date that does
   not parse. *)
C20_SortIdempotent ==
    \A again \in SortOutcomes(sorted, sortBy) : again = sorted


(* C21: at most one mutation request (POST, PUT or DELETE) is awaiting its
   response at any time: while one is, neither the submit button nor a
   Delete button starts another. *)
C21_OneMutationInFlight ==
    Len(sent) + Len(deletes) <= 1


(* C22: in every reachable state, after any page changes, creations and
   deletions, the current page lies within the pages there are:
   1 <= page <= totalPages. *)
C22_PageWithinTotalPages ==
    1 <= page /\ page <= totalPages


(* C23: the loading flag is true exactly while a posts fetch is in flight:
   true as long as some request is pending, also when two fetches overlap,
   and false once none is. *)
C23_LoadingWhileFetching ==
    loading <=> requests # {}

===========================================================================
